---- MODULE Spec2Model ----
(***************************************************************************)
(* The to-do router (POST/GET/PATCH/DELETE /todos) over the Todo           *)
(* collection.  Every `await` of a handler is one step, so that requests   *)
(* can interleave between two database calls of one handler.               *)
(*   Spec      requests run one at a time (slot 1 only)                    *)
(*   ConcSpec  up to MaxReq requests in flight, reorder/create/delete      *)
(*   ReorderSpec  as ConcSpec, but only PATCH requests overlap             *)
(*   RevSpec    one at a time, order-only PATCH bodies, remembering the    *)
(*              request before the current one                            *)
(*   ValidSpec  one at a time, values of every kind the validation tells   *)
(*              apart (missing, not text, empty, 1, 50 and 51 characters)  *)
(***************************************************************************)
EXTENDS Integers, Sequences, FiniteSets, TLC

\* ---------------------------------------------------------------- bounds
MaxItems == 3
MaxReq == 2
MaxOps == 4
MaxConcOps == 5
MaxFail == 1
MaxTime == 1
MaxOrderInput == 2

\* doneAt: null is 0, a Date is its instant 1..MaxTime
Null == 0

TodoIds == 1..MaxItems
Reqs == 1..MaxReq
Times == 1..MaxTime
OrderInputs == (0 - 1)..MaxOrderInput

VARIABLES store, nextId, req, nops, nfail, hist

vars == <<store, nextId, req, nops, nfail, hist>>

\* ------------------------------------------------------------ documents
NoDoc == [order |-> 0, value |-> "", doneAt |-> Null]

\* req.body of PATCH: { order, done, value }, each possibly undefined; a
\* value that is not a string (a number) is held as the text it casts to
NoBody == [hasOrder |-> FALSE, order |-> 0, hasDone |-> FALSE, done |-> FALSE,
           hasValue |-> FALSE, value |-> "", isText |-> TRUE]

OrderBody(n) == [NoBody EXCEPT !.hasOrder = TRUE, !.order = n]

PatchBodies ==
    { [hasOrder |-> ho, order |-> o, hasDone |-> hd, done |-> d,
       hasValue |-> hv, value |-> v, isText |-> TRUE] :
         ho \in BOOLEAN, o \in OrderInputs, hd \in BOOLEAN, d \in BOOLEAN,
         hv \in BOOLEAN, v \in {"", "b"} }

\* an undefined field carries the default, so that each body is listed once
NormalBody(b) ==
    /\ (~b.hasOrder => b.order = 0)
    /\ (~b.hasDone => b.done = FALSE)
    /\ (~b.hasValue => b.value = "")

SeqPatchBodies == { b \in PatchBodies : NormalBody(b) }

ConcPatchBodies == { OrderBody(n) : n \in 1..MaxOrderInput }

\* req.body of POST: { value }
CreateBodies == { [NoBody EXCEPT !.hasValue = hv, !.value = v] :
                    hv \in BOOLEAN, v \in {"", "a"} }

SeqCreateBodies == { b \in CreateBodies : NormalBody(b) }

ConcCreateBodies == { [NoBody EXCEPT !.hasValue = TRUE, !.value = "a"] }

\* texts of 50 and of 51 characters
Text50 == "aaaaaaaaaabbbbbbbbbbccccccccccddddddddddeeeeeeeeee"

Text51 == "aaaaaaaaaabbbbbbbbbbccccccccccddddddddddeeeeeeeeeef"

ValueBody(v, text) == [NoBody EXCEPT !.hasValue = TRUE, !.value = v, !.isText = text]

\* { }, { value: "" }, { value: "a" }, 50 and 51 characters, { value: 7 }
WideCreateBodies ==
    {NoBody} \cup { ValueBody(v, TRUE) : v \in {"", "a", Text50, Text51} }
            \cup { ValueBody("7", FALSE) }

WidePatchBodies ==
    { ValueBody(v, TRUE) : v \in {"", "b", Text51} }
       \cup { ValueBody("7", FALSE) }
       \cup { OrderBody(n) : n \in 1..MaxOrderInput }

\* ------------------------------------------------------- pure helpers
Max(S) == CHOOSE x \in S : \A y \in S : y <= x

Orders(st) == { st[i].order : i \in DOMAIN st }

\* createdTodoSchema: value is a required string of 1..50 characters
ValidCreateNoMax(b) == b.hasValue /\ b.isText /\ Len(b.value) >= 1

ValidCreate(b) ==
    b.hasValue /\ b.isText /\ Len(b.value) >= 1 /\ Len(b.value) <= 50

\* Todo.findOne().sort('-order'), then todoMaxOrder ? order + 1 : 1
CreateOrderNoIncrement(st) == IF DOMAIN st = {} THEN 1 ELSE Max(Orders(st))

CreateOrder(st) == IF DOMAIN st = {} THEN 1 ELSE Max(Orders(st)) + 1

\* Todo.find().sort('-order'): every document once, order not increasing
\* (documents of equal order come in whatever order the database yields)
ListResultsUnsorted(st) ==
    { s \in [1..Cardinality(DOMAIN st) -> DOMAIN st] :
        \A i, j \in DOMAIN s : i # j => s[i] # s[j] }

ListResults(st) ==
    { s \in [1..Cardinality(DOMAIN st) -> DOMAIN st] :
        /\ \A i, j \in DOMAIN s : i # j => s[i] # s[j]
        /\ \A i, j \in DOMAIN s : i < j => st[s[i]].order >= st[s[j]].order }

ListItem(st, i) == [id |-> i, order |-> st[i].order, value |-> st[i].value,
                    doneAt |-> st[i].doneAt]

\* Todo.findById(todoId): the documents the lookup can yield
FindByIdFallback(st, id) == IF id \in DOMAIN st THEN {id} ELSE DOMAIN st

FindById(st, id) == IF id \in DOMAIN st THEN {id} ELSE {}

\* if (order): undefined and 0 are falsy
OrderTruthy(b) == b.hasOrder /\ b.order # 0

\* Todo.findOne({ order }): the documents the query can yield
FindByOrderNone(st, n) == {}

FindByOrder(st, n) == { i \in DOMAIN st : st[i].order = n }

\* targetTodo.order = currentTodo.order
SwapTargetKeep(tgt, cur) == tgt

SwapTarget(tgt, cur) == [tgt EXCEPT !.order = cur.order]

\* currentTodo.order = order
SetOrderKeep(cur, b) == cur

SetOrder(cur, b) == [cur EXCEPT !.order = b.order]

\* if (done !== undefined) currentTodo.doneAt = done ? new Date() : null
SetDoneAlways(cur, b, now) ==
    [cur EXCEPT !.doneAt = IF b.done THEN now ELSE Null]

SetDone(cur, b, now) ==
    IF b.hasDone THEN [cur EXCEPT !.doneAt = IF b.done THEN now ELSE Null]
    ELSE cur

\* if (value) currentTodo.value = value: undefined and "" are falsy
SetValueAlways(cur, b) == [cur EXCEPT !.value = b.value]

SetValue(cur, b) ==
    IF b.hasValue /\ b.value # "" THEN [cur EXCEPT !.value = b.value] ELSE cur

\* lines 90-97, run between the last await of the order block and the save
ApplyFields(cur, b, now) == SetValue(SetDone(cur, b, now), b)

\* the Todo schema (schemas/todo.schema.js): a document needs a value that
\* is not empty; the schema sets no bound on its length
SchemaAccepts(doc) == doc.value # ""

\* document.save() of a loaded document: an update of the modified paths
\* of the stored document with that _id; it matches nothing, and inserts
\* nothing, when that document is gone
SaveDocUpsert(st, id, orig, doc) ==
    [i \in DOMAIN st \cup {id} |->
        IF i = id
        THEN IF id \in DOMAIN st
             THEN [order  |-> IF doc.order # orig.order THEN doc.order ELSE st[i].order,
                   value  |-> IF doc.value # orig.value THEN doc.value ELSE st[i].value,
                   doneAt |-> IF doc.doneAt # orig.doneAt THEN doc.doneAt ELSE st[i].doneAt]
             ELSE doc
        ELSE st[i]]

SaveDoc(st, id, orig, doc) ==
    IF id \in DOMAIN st
    THEN [st EXCEPT ![id] =
            [order  |-> IF doc.order # orig.order THEN doc.order ELSE @.order,
             value  |-> IF doc.value # orig.value THEN doc.value ELSE @.value,
             doneAt |-> IF doc.doneAt # orig.doneAt THEN doc.doneAt ELSE @.doneAt]]
    ELSE st

\* new Todo({ value, order }).save(): an insert under a fresh _id
InsertDoc(st, id, doc) == [i \in DOMAIN st \cup {id} |-> IF i = id THEN doc ELSE st[i]]

\* Todo.deleteOne({ _id: todoId })
DeleteOneNone(st, id) == st

DeleteOne(st, id) == [i \in DOMAIN st \ {id} |-> st[i]]

\* ------------------------------------------------------------ requests
IdleReq == [op |-> "idle", pc |-> "idle", todoId |-> 0, body |-> NoBody,
            order |-> 0, orig |-> NoDoc, cur |-> NoDoc,
            tgtId |-> 0, tgtOrig |-> NoDoc, tgt |-> NoDoc,
            outcome |-> "none", newId |-> 0, result |-> <<>>,
            pre |-> [i \in {} |-> NoDoc]]

Free(r) == req[r].pc \in {"idle", "done"}

InFlight(r) == ~Free(r)

Quiet == \A r \in Reqs : Free(r)

Finish(r, rec, out) ==
    req' = [req EXCEPT ![r] = [rec EXCEPT !.pc = "done", !.outcome = out]]

\* the request that came before the current one (kept under RevSpec only)
NoHist == [op |-> "idle", todoId |-> 0, body |-> NoBody, outcome |-> "none",
           pre |-> [i \in {} |-> NoDoc]]

LastRequest(r) == [op |-> req[r].op, todoId |-> req[r].todoId, body |-> req[r].body,
                   outcome |-> req[r].outcome, pre |-> req[r].pre]

Init ==
    /\ store = [i \in {} |-> NoDoc]
    /\ nextId = 1
    /\ req = [r \in Reqs |-> IdleReq]
    /\ nops = 0
    /\ nfail = 0
    /\ hist = NoHist

\* ------------------------------------------------------------ POST /todos
\* lines 19-32: validateAsync(req.body); a rejection goes to next(error)
PostTodos(r, b) ==
    /\ Free(r)
    /\ nextId + Cardinality({q \in Reqs : req[q].op = "create" /\ InFlight(q)})
          <= MaxItems
    /\ LET rec == [IdleReq EXCEPT !.op = "create", !.body = b, !.pre = store]
       IN IF ValidCreate(b)
          THEN req' = [req EXCEPT ![r] = [rec EXCEPT !.pc = "post_findOne"]]
          ELSE Finish(r, rec, "validationError")
    /\ nops' = nops + 1
    /\ UNCHANGED <<store, nextId, nfail>>

\* lines 37-43: read the greatest order, compute the new one
PostFindOne(r) ==
    /\ req[r].pc = "post_findOne"
    /\ req' = [req EXCEPT ![r].order = CreateOrder(store), ![r].pc = "post_save"]
    /\ UNCHANGED <<store, nextId, nops, nfail, hist>>

\* lines 46-48: todo.save(), 201
PostSave(r) ==
    /\ req[r].pc = "post_save"
    /\ store' = InsertDoc(store, nextId,
                   [order |-> req[r].order, value |-> req[r].body.value,
                    doneAt |-> Null])
    /\ nextId' = nextId + 1
    /\ Finish(r, [req[r] EXCEPT !.newId = nextId], "created")
    /\ UNCHANGED <<nops, nfail, hist>>

\* ------------------------------------------------------------- GET /todos
GetTodos(r) ==
    /\ Free(r)
    /\ req' = [req EXCEPT ![r] =
                 [IdleReq EXCEPT !.op = "list", !.pc = "get_find", !.pre = store]]
    /\ nops' = nops + 1
    /\ UNCHANGED <<store, nextId, nfail>>

\* lines 58-61
GetFind(r) ==
    /\ req[r].pc = "get_find"
    /\ \E s \in ListResults(store) :
          Finish(r, [req[r] EXCEPT
                       !.result = [i \in DOMAIN s |-> ListItem(store, s[i])]],
                 "ok")
    /\ UNCHANGED <<store, nextId, nops, nfail, hist>>

\* --------------------------------------------------- PATCH /todos/:todoId
\* lines 65-67
PatchTodo(r, id, b) ==
    /\ Free(r)
    /\ req' = [req EXCEPT ![r] =
                 [IdleReq EXCEPT !.op = "update", !.pc = "patch_findById",
                                 !.todoId = id, !.body = b, !.pre = store]]
    /\ nops' = nops + 1
    /\ UNCHANGED <<store, nextId, nfail>>

\* lines 70-79: load the target, 404 when there is none; with a falsy order
\* the handler runs on to the save of line 99
PatchFindById(r) ==
    /\ req[r].pc = "patch_findById"
    /\ LET id == req[r].todoId
           b == req[r].body
           found == FindById(store, id)
       IN IF found = {}
          THEN Finish(r, req[r], "notFound")
          ELSE \E d \in found :
               IF OrderTruthy(b)
               THEN req' = [req EXCEPT ![r].orig = store[d], ![r].cur = store[d],
                                       ![r].pc = "patch_findOne"]
               ELSE \E now \in Times :
                      req' = [req EXCEPT ![r].orig = store[d],
                                         ![r].cur = ApplyFields(store[d], b, now),
                                         ![r].pc = "patch_save"]
    /\ UNCHANGED <<store, nextId, nops, nfail, hist>>

\* lines 80-83: look for the holder of the requested order
PatchFindOne(r) ==
    /\ req[r].pc = "patch_findOne"
    /\ LET b == req[r].body
           found == FindByOrder(store, b.order)
       IN IF found = {}
          THEN \E now \in Times :
                 req' = [req EXCEPT
                           ![r].cur = ApplyFields(SetOrder(req[r].cur, b), b, now),
                           ![r].pc = "patch_save"]
          ELSE \E i \in found :
                 req' = [req EXCEPT ![r].tgtId = i, ![r].tgtOrig = store[i],
                                    ![r].tgt = SwapTarget(store[i], req[r].cur),
                                    ![r].pc = "patch_targetSave"]
    /\ UNCHANGED <<store, nextId, nops, nfail, hist>>

\* lines 84-97: targetTodo.save(); a document deleted since it was loaded
\* makes save() reject (DocumentNotFoundError), which nothing catches
PatchTargetSave(r) ==
    /\ req[r].pc = "patch_targetSave"
    /\ LET b == req[r].body
       IN /\ store' = SaveDoc(store, req[r].tgtId, req[r].tgtOrig, req[r].tgt)
          /\ IF req[r].tgtId \in DOMAIN store
             THEN \E now \in Times :
                    req' = [req EXCEPT
                              ![r].cur = ApplyFields(SetOrder(req[r].cur, b), b, now),
                              ![r].pc = "patch_save"]
             ELSE Finish(r, req[r], "docNotFound")
    /\ UNCHANGED <<nextId, nops, nfail, hist>>

\* lines 99-101: currentTodo.save(), 200
PatchSave(r) ==
    /\ req[r].pc = "patch_save"
    /\ IF SchemaAccepts(req[r].cur)
       THEN /\ store' = SaveDoc(store, req[r].todoId, req[r].orig, req[r].cur)
            /\ Finish(r, req[r],
                      IF req[r].todoId \in DOMAIN store THEN "ok" ELSE "docNotFound")
       ELSE /\ store' = store
            /\ Finish(r, req[r], "validationError")
    /\ UNCHANGED <<nextId, nops, nfail, hist>>

\* -------------------------------------------------- DELETE /todos/:todoId
DeleteTodo(r, id) ==
    /\ Free(r)
    /\ req' = [req EXCEPT ![r] =
                 [IdleReq EXCEPT !.op = "delete", !.pc = "delete_findById",
                                 !.todoId = id, !.pre = store]]
    /\ nops' = nops + 1
    /\ UNCHANGED <<store, nextId, nfail>>

\* lines 108-114
DeleteFindById(r) ==
    /\ req[r].pc = "delete_findById"
    /\ IF FindById(store, req[r].todoId) = {}
       THEN Finish(r, req[r], "notFound")
       ELSE req' = [req EXCEPT ![r].pc = "delete_deleteOne"]
    /\ UNCHANGED <<store, nextId, nops, nfail, hist>>

\* lines 116-118
DeleteDeleteOne(r) ==
    /\ req[r].pc = "delete_deleteOne"
    /\ store' = DeleteOne(store, req[r].todoId)
    /\ Finish(r, req[r], "ok")
    /\ UNCHANGED <<nextId, nops, nfail, hist>>

\* ------------------------------------------------------- store failures
\* what becomes of a rejected await: POST catches it and calls next(error)
\* (lines 49-52); GET, PATCH and DELETE have no try/catch, the rejection
\* leaves the async handler, and either the framework hands it to the error
\* handler or nothing ever answers the request ("unhandled")
RejectionOutcomes(op) ==
    IF op = "create" THEN {"storeError"} ELSE {"storeError", "unhandled"}

\* the database call a request is waiting on rejects
StoreFail(r) ==
    /\ InFlight(r)
    /\ nfail < MaxFail
    /\ nfail' = nfail + 1
    /\ \E out \in RejectionOutcomes(req[r].op) : Finish(r, req[r], out)
    /\ UNCHANGED <<store, nextId, nops, hist>>

\* ------------------------------------------------------- specifications
SeqStart ==
    /\ nops < MaxOps
    /\ UNCHANGED hist
    /\ \/ \E b \in SeqCreateBodies : PostTodos(1, b)
       \/ GetTodos(1)
       \/ \E id \in TodoIds, b \in SeqPatchBodies : PatchTodo(1, id, b)
       \/ \E id \in TodoIds : DeleteTodo(1, id)

Step(r) ==
    \/ PostFindOne(r)
    \/ PostSave(r)
    \/ GetFind(r)
    \/ PatchFindById(r)
    \/ PatchFindOne(r)
    \/ PatchTargetSave(r)
    \/ PatchSave(r)
    \/ DeleteFindById(r)
    \/ DeleteDeleteOne(r)

Next == SeqStart \/ Step(1) \/ StoreFail(1)

Spec == Init /\ [][Next]_vars

ConcStart ==
    /\ nops < MaxConcOps
    /\ UNCHANGED hist
    /\ \E r \in Reqs :
          \/ \E b \in ConcCreateBodies : PostTodos(r, b)
          \/ GetTodos(r)
          \/ \E id \in TodoIds, b \in ConcPatchBodies : PatchTodo(r, id, b)
          \/ \E id \in TodoIds : DeleteTodo(r, id)

NextConc == ConcStart \/ \E r \in Reqs : Step(r)

ValidStart ==
    /\ nops < MaxOps
    /\ UNCHANGED hist
    /\ \/ \E b \in WideCreateBodies : PostTodos(1, b)
       \/ GetTodos(1)
       \/ \E id \in TodoIds, b \in WidePatchBodies : PatchTodo(1, id, b)
       \/ \E id \in TodoIds : DeleteTodo(1, id)

NextValid == ValidStart \/ Step(1)

ValidSpec == Init /\ [][NextValid]_vars

RevPatchBodies == { OrderBody(n) : n \in OrderInputs }

RevStart ==
    /\ nops < MaxConcOps
    /\ hist' = LastRequest(1)
    /\ \/ \E b \in ConcCreateBodies : PostTodos(1, b)
       \/ GetTodos(1)
       \/ \E id \in TodoIds, b \in RevPatchBodies : PatchTodo(1, id, b)
       \/ \E id \in TodoIds : DeleteTodo(1, id)

NextRev == RevStart \/ Step(1)

RevSpec == Init /\ [][NextRev]_vars

ConcSpec == Init /\ [][NextConc]_vars

\* creates, lists and deletes run alone; PATCH requests overlap each other
ReorderStart ==
    /\ nops < MaxConcOps
    /\ UNCHANGED hist
    /\ \E r \in Reqs :
          \/ /\ Quiet
             /\ \/ \E b \in ConcCreateBodies : PostTodos(r, b)
                \/ GetTodos(r)
                \/ \E id \in TodoIds : DeleteTodo(r, id)
          \/ /\ \A q \in Reqs : InFlight(q) => req[q].op = "update"
             /\ \E id \in TodoIds, b \in ConcPatchBodies : PatchTodo(r, id, b)

NextReorder == ReorderStart \/ \E r \in Reqs : Step(r)

ReorderSpec == Init /\ [][NextReorder]_vars

TypeOK ==
    /\ nextId \in 1..(MaxItems + 1)
    /\ DOMAIN store \subseteq 1..(nextId - 1)
    /\ \A r \in Reqs : req[r].pc \in
          {"idle", "done", "post_findOne", "post_save", "get_find",
           "patch_findById", "patch_findOne", "patch_targetSave", "patch_save",
           "delete_findById", "delete_deleteOne"}

\* ================================================================ claims
Distinct(st) == \A i, j \in DOMAIN st : i # j => st[i].order # st[j].order

Done(r, op) == req[r].pc = "done" /\ req[r].op = op

\* an Update that has saved its swap partner and not yet its own document
MidSwap(r) ==
    /\ req[r].pc = "patch_save"
    /\ req[r].tgtId # 0
    /\ req[r].tgtId # req[r].todoId

\* a finished Update that exchanged orders with another document
Swapped(r) ==
    /\ Done(r, "update")
    /\ req[r].outcome = "ok"
    /\ req[r].tgtId # 0
    /\ req[r].tgtId # req[r].todoId

\* C1: with requests run one at a time from the empty store, each to its
\* end without a failing database call, no two items of the store have the
\* same order once the request is over.
C1_DistinctAfterEachRequest ==
    (Quiet /\ nfail = 0) => Distinct(store)

C1_Witness ==
    /\ Swapped(1)
    /\ nfail = 0
    /\ Cardinality(DOMAIN store) >= 2

\* C2 (as claimed): an Update(A, {order: n}) run alone on distinct orders, n
\* being the order of another item B: afterwards A has n, B has A's old
\* order, every other item has the order it had.
C2_SwapForAnyHeldOrder ==
    LET A == req[1].todoId
        n == req[1].body.order
        pre == req[1].pre
    IN (/\ Done(1, "update")
        /\ req[1].outcome = "ok"
        /\ req[1].body.hasOrder
        /\ Distinct(pre)
        /\ A \in DOMAIN pre)
       => \A B \in DOMAIN pre \ {A} :
             pre[B].order = n =>
                /\ DOMAIN store = DOMAIN pre
                /\ store[A].order = n
                /\ store[B].order = pre[A].order
                /\ \A i \in DOMAIN pre \ {A, B} : store[i].order = pre[i].order

\* C2, for every n but 0 (the orders `if (order)` lets through): the same
\* exchange.
C2_SwapExchangesTwoOrders ==
    LET A == req[1].todoId
        n == req[1].body.order
        pre == req[1].pre
    IN (/\ Done(1, "update")
        /\ req[1].outcome = "ok"
        /\ OrderTruthy(req[1].body)
        /\ Distinct(pre)
        /\ A \in DOMAIN pre)
       => \A B \in DOMAIN pre \ {A} :
             pre[B].order = n =>
                /\ DOMAIN store = DOMAIN pre
                /\ store[A].order = n
                /\ store[B].order = pre[A].order
                /\ \A i \in DOMAIN pre \ {A, B} : store[i].order = pre[i].order

C2_Witness ==
    /\ Swapped(1)
    /\ Distinct(req[1].pre)
    /\ Cardinality(DOMAIN req[1].pre) = 3
    /\ req[1].pre[req[1].tgtId].order = req[1].body.order
    /\ req[1].pre[req[1].todoId].order # req[1].body.order

\* C3: when every request so far was a Create that persisted its item
\* (as many items were ever inserted as requests were started), the i-th of
\* them holds order i.
C3_CreatesCountUp ==
    (Quiet /\ nextId - 1 = nops) =>
        \A i \in 1..nops : i \in DOMAIN store /\ store[i].order = i

C3_Witness ==
    /\ Quiet
    /\ nops = 3
    /\ nextId = 4
    /\ Done(1, "create")
    /\ req[1].newId = 3

\* C4 (as claimed): the step of a Create that inserts the new item gives it
\* an order greater than the order of every item in the store at that step,
\* whatever requests are interleaved with it.
C4_CreateAboveAllAtInsert ==
    [][\A r \in Reqs :
         (req[r].pc = "post_save" /\ req'[r].pc = "done"
            /\ req'[r].outcome = "created")
         => \A i \in DOMAIN store : req[r].order > store[i].order]_vars

C6_DistinctWhenQuiet == Quiet => Distinct(store)

\* C7: a List run alone after completed requests returns the items of the
\* store, each once, as they are stored, each with an order strictly less
\* than the one before it.
C7_ListExactAndDescending ==
    (Done(1, "list") /\ req[1].outcome = "ok" /\ nfail = 0) =>
        LET res == req[1].result
        IN /\ Len(res) = Cardinality(DOMAIN store)
           /\ { res[k].id : k \in DOMAIN res } = DOMAIN store
           /\ \A k \in DOMAIN res : res[k] = ListItem(store, res[k].id)
           /\ \A k \in DOMAIN res : k > 1 => res[k].order < res[k - 1].order

C7_Witness ==
    /\ Done(1, "list")
    /\ req[1].outcome = "ok"
    /\ nfail = 0
    /\ Len(req[1].result) >= 2
    /\ \E i \in DOMAIN store : store[i].order # i

\* C8: after an Update of an existing item, doneAt is set when done was
\* supplied true, null when done was supplied false, and what it was when
\* done was not supplied.
C8_DoneSetsClearsOrKeeps ==
    LET A == req[1].todoId
        b == req[1].body
        pre == req[1].pre
    IN (Done(1, "update") /\ req[1].outcome = "ok" /\ A \in DOMAIN pre) =>
          /\ A \in DOMAIN store
          /\ (b.hasDone /\ b.done) => store[A].doneAt # Null
          /\ (b.hasDone /\ ~b.done) => store[A].doneAt = Null
          /\ ~b.hasDone => store[A].doneAt = pre[A].doneAt

C8_Witness ==
    /\ Done(1, "update")
    /\ req[1].outcome = "ok"
    /\ req[1].todoId \in DOMAIN req[1].pre
    /\ req[1].pre[req[1].todoId].doneAt # Null
    /\ ~req[1].body.hasDone
    /\ OrderTruthy(req[1].body)

\* C9: an Update or a Delete of an id that names no item leaves the store as
\* it was and, unless the lookup itself failed, ends with the 404 outcome,
\* whatever fields the Update carries.
C9_UnknownIdIsNotFound ==
    ((Done(1, "update") \/ Done(1, "delete"))
        /\ req[1].todoId \notin DOMAIN req[1].pre) =>
       /\ store = req[1].pre
       /\ req[1].outcome \notin {"storeError", "unhandled"} =>
             req[1].outcome = "notFound"

C9_Witness ==
    /\ Done(1, "update")
    /\ req[1].todoId \notin DOMAIN req[1].pre
    /\ req[1].outcome = "notFound"
    /\ OrderTruthy(req[1].body)
    /\ req[1].body.hasDone
    /\ req[1].body.value = "b"
    /\ req[1].body.order \in Orders(store)

\* C10: a Delete of an existing item A removes A and nothing else: the other
\* items keep order, value and doneAt, and no List result holds an item
\* that is not in the store.
C10_DeleteRemovesOnlyTarget ==
    /\ (Done(1, "delete") /\ req[1].outcome = "ok"
          /\ req[1].todoId \in DOMAIN req[1].pre) =>
         /\ DOMAIN store = DOMAIN req[1].pre \ {req[1].todoId}
         /\ \A i \in DOMAIN store : store[i] = req[1].pre[i]
    /\ (Done(1, "list") /\ req[1].outcome = "ok") =>
         \A k \in DOMAIN req[1].result : req[1].result[k].id \in DOMAIN store

C10_Witness ==
    /\ Done(1, "delete")
    /\ req[1].outcome = "ok"
    /\ req[1].todoId = 1
    /\ DOMAIN store = {2, 3}
    /\ store[2].order = 2
    /\ store[3].order = 3

\* C11: a Create whose value is missing, not text, empty or longer than 50
\* characters ends with the validation error, before any lookup of the
\* greatest order, and leaves the store as it was; a Create whose value is a
\* text of 1 to 50 characters inserts an item with that value.
C11_CreateValidation ==
    Done(1, "create") =>
       LET b == req[1].body
           pre == req[1].pre
           n == req[1].newId
           good == /\ b.hasValue
                   /\ b.isText
                   /\ Len(b.value) >= 1
                   /\ Len(b.value) <= 50
       IN /\ ~good =>
               /\ req[1].outcome = "validationError"
               /\ store = pre
               /\ req[1].order = 0
               /\ n = 0
          /\ good =>
               /\ req[1].outcome = "created"
               /\ n \notin DOMAIN pre
               /\ DOMAIN store = DOMAIN pre \cup {n}
               /\ store[n].value = b.value
               /\ \A i \in DOMAIN pre : store[i] = pre[i]

C11_Witness ==
    /\ Done(1, "create")
    /\ req[1].body.value = Text51
    /\ req[1].outcome = "validationError"
    /\ \E i \in DOMAIN store : store[i].value = Text50

\* C12 (as claimed): the value of every stored item is a text of 1 to 50
\* characters in every reachable state, whatever Updates carried a value.
C12_StoredValuesWithinBound ==
    \A i \in DOMAIN store : Len(store[i].value) >= 1 /\ Len(store[i].value) <= 50

\* C13 (as claimed): a request whose database call failed ends with an
\* error outcome given by the error handler; none is left without an answer.
C13_FailureReachesErrorHandler ==
    \A r \in Reqs : req[r].pc = "done" => req[r].outcome # "unhandled"

\* C14 (as claimed): after a successful Update of an existing item that
\* supplied an integer order n, 0 and negative values included, the item's
\* order is n.
C14_SuppliedOrderIsAssigned ==
    LET A == req[1].todoId
    IN (/\ Done(1, "update")
        /\ req[1].outcome = "ok"
        /\ A \in DOMAIN req[1].pre
        /\ req[1].body.hasOrder)
       => (A \in DOMAIN store /\ store[A].order = req[1].body.order)

\* an Update of an existing item A that supplies A's own current order
OwnOrder(r) ==
    /\ req[r].op = "update"
    /\ req[r].todoId \in DOMAIN req[r].pre
    /\ req[r].body.hasOrder
    /\ req[r].body.order = req[r].pre[req[r].todoId].order

OrdersAsBefore(r) ==
    /\ DOMAIN store = DOMAIN req[r].pre
    /\ \A i \in DOMAIN store : store[i].order = req[r].pre[i].order

\* C15 (as claimed): in an Update(A, {order: n}) with n A's own order, A is
\* not taken as its own swap partner, and afterwards every item has the
\* order it had.
C15_NotItsOwnPartner ==
    OwnOrder(1) =>
       /\ req[1].tgtId # req[1].todoId
       /\ (req[1].pc = "done" /\ req[1].outcome = "ok") => OrdersAsBefore(1)

\* C15 (amended): in an Update(A, {order: n}) with n A's own order, the
\* lookup by order finds A itself (for n other than 0, on distinct orders;
\* no check excludes the target), A is saved with the order it has, and
\* afterwards every item has the order it had.
C15_OwnOrderChangesNothing ==
    (OwnOrder(1) /\ req[1].pc = "done" /\ req[1].outcome = "ok") =>
       /\ OrdersAsBefore(1)
       /\ (OrderTruthy(req[1].body) /\ Distinct(req[1].pre)) =>
             req[1].tgtId = req[1].todoId

C15_Witness ==
    /\ OwnOrder(1)
    /\ req[1].pc = "done"
    /\ req[1].outcome = "ok"
    /\ req[1].tgtId = req[1].todoId
    /\ Cardinality(DOMAIN store) >= 2

\* an Update with a swap partner whose second save (of the target) was the
\* database call that failed
SecondSaveFailed(r) ==
    /\ Done(r, "update")
    /\ req[r].outcome \in {"storeError", "unhandled"}
    /\ req[r].tgtId # 0
    /\ req[r].tgtId # req[r].todoId
    /\ req[r].cur.order = req[r].body.order
    /\ req[r].cur.order # req[r].orig.order

\* what such an Update leaves in the store: the partner with the target's
\* old order, the target as it was
HalfApplied(r) ==
    LET A == req[r].todoId
        B == req[r].tgtId
        pre == req[r].pre
    IN /\ DOMAIN store = DOMAIN pre
       /\ store[B].order = pre[A].order
       /\ store[A] = pre[A]

\* C16 (as claimed): when the save of the partner succeeds and the save of
\* the target fails, nothing is rolled back and the request ends with an
\* error outcome.
C16_HalfAppliedEndsInError ==
    SecondSaveFailed(1) => (HalfApplied(1) /\ req[1].outcome = "storeError")

\* C16, the part about the store: nothing is rolled back.
C16_NothingRolledBack == SecondSaveFailed(1) => HalfApplied(1)

\* C17: an id that was given to an item and is no longer in the store stays
\* out of the store, whatever request takes the step, a save by an Update
\* that loaded the item before its Delete included.
C17_DeletedStaysDeleted ==
    [][\A i \in TodoIds :
         (i < nextId /\ i \notin DOMAIN store) => i \notin DOMAIN store']_vars

C17_Witness ==
    \E r \in Reqs :
       /\ Done(r, "update")
       /\ req[r].outcome = "docNotFound"
       /\ req[r].cur # req[r].orig
       /\ req[r].todoId \notin DOMAIN store
       /\ req[r].todoId < nextId

\* C18: an Update of an existing item changes what its fields call for and
\* no more: no order supplied, no order changes; no done supplied, doneAt
\* stays; no value or an empty one, value stays; items other than the target
\* and its swap partner stay as they are, the partner keeps value and
\* doneAt; with no field at all the request succeeds and the store stays.
C18_UpdateFrame ==
    LET A == req[1].todoId
        B == req[1].tgtId
        b == req[1].body
        pre == req[1].pre
    IN (Done(1, "update") /\ A \in DOMAIN pre) =>
          /\ DOMAIN store = DOMAIN pre
          /\ ~b.hasOrder => \A i \in DOMAIN pre : store[i].order = pre[i].order
          /\ ~b.hasDone => store[A].doneAt = pre[A].doneAt
          /\ (~b.hasValue \/ b.value = "") => store[A].value = pre[A].value
          /\ \A i \in DOMAIN pre \ {A, B} : store[i] = pre[i]
          /\ B \in DOMAIN pre \ {A} =>
                /\ store[B].value = pre[B].value
                /\ store[B].doneAt = pre[B].doneAt
          /\ b = NoBody =>
                /\ store = pre
                /\ req[1].outcome \in {"ok", "storeError", "unhandled"}
                /\ nfail = 0 => req[1].outcome = "ok"

C18_Witness ==
    /\ Swapped(1)
    /\ Cardinality(DOMAIN store) = 3
    /\ req[1].body.hasValue
    /\ req[1].body.value = ""
    /\ ~req[1].body.hasDone

\* two Updates of the same item A one after the other, the first to the
\* order b of another item B, the second back to A's order a
ThereAndBack ==
    LET A == req[1].todoId
        first == hist.pre
    IN /\ Done(1, "update")
       /\ req[1].outcome = "ok"
       /\ hist.op = "update"
       /\ hist.outcome = "ok"
       /\ hist.todoId = A
       /\ A \in DOMAIN first
       /\ Distinct(first)
       /\ hist.body.hasOrder
       /\ \E B \in DOMAIN first \ {A} : first[B].order = hist.body.order
       /\ req[1].body.hasOrder
       /\ req[1].body.order = first[A].order

AsBeforeFirst ==
    /\ DOMAIN store = DOMAIN hist.pre
    /\ \A i \in DOMAIN store : store[i].order = hist.pre[i].order

\* C19 (as claimed): Update(A, {order: b}) and then Update(A, {order: a}),
\* a and b the distinct orders of A and B, leave every item with the order
\* it had before the first.
C19_ReorderIsReversible == ThereAndBack => AsBeforeFirst

\* C19, for a other than 0: the second Update undoes the first.
C19_ReversibleUnlessZero ==
    (ThereAndBack /\ OrderTruthy(req[1].body)) => AsBeforeFirst

====
